---- MODULE Spec2Model ----
(***************************************************************************)
(* A model of the semantic-conditioning experiment tools:                  *)
(*   evaluate_quality.py           the blind scoring session               *)
(*   semantic_conditioning_test.py the trial orchestrator and the checker  *)
(*   reveal_results.py             the analyzer                            *)
(* Each tool is a sequential program; each gets its own specification over *)
(* its own variables, the other tools' variables staying as Init left them.*)
(***************************************************************************)
EXTENDS Integers, Sequences, FiniteSets, TLC

VARIABLES
    \* ---- evaluate_quality.py
    files,        \* the file system: path -> [exists, json]
    files0,       \* the file system as it was when the tool started
    blind_file,   \* main: sys.argv[1]
    output_file,  \* evaluate_interactively's output_file
    data,         \* the blind-eval samples, in stored order
    scores,       \* the in-memory score store (a JSON value)
    idx,          \* position of the for loop over data (1-based)
    pc,           \* where the session is
    inMain,       \* whether evaluate_interactively was called from main()
    lastMsg,      \* the last message the input loop printed
    prompted,     \* positions of data whose sample was displayed
    skipped,      \* positions left by the skip input
    entered,      \* position -> the five parsed scores of its valid line
    endedBy,      \* "" | "quit" | "completed"
    written,      \* paths the session opened for writing
    \* ---- semantic_conditioning_test.py: check_correctness
    ccPc,         \* where check_correctness is
    calls,        \* calls of check_correctness so far
    encoding,     \* the locale's text encoding, which open(mode='w') uses
    tmpFiles,     \* the temporary files that exist
    created,      \* whether this call has created its temporary file
    temp_name,    \* f.name of this call's temporary file
    full_code,    \* the program this call assembles
    outcome,      \* what subprocess.run did
    ccResult,     \* what the call returned or raised
    \* ---- semantic_conditioning_test.py: run_experiment
    exPc,         \* where run_experiment is
    problems,     \* the loaded problems' ids, in problems.keys() order
    n_trials,     \* n_trials_per_condition
    trials,       \* the shuffled trial sequence
    ti,           \* position of the trial loop (1-based)
    results,      \* run_experiment's results
    blind_outputs,\* run_experiment's blind_outputs
    raisedIn,     \* per trial run: "none" | "generate" | "check"
    resultsFile,  \* results_<timestamp>.json
    blindFile,    \* blind_eval_<timestamp>.json
    keyFile,      \* key_<timestamp>.json
    \* ---- reveal_results.py: analyze
    anPc,         \* where analyze is
    aResults,     \* analyze's results
    aScores,      \* analyze's scores: blind_id -> ScoreRecord
    aKey,         \* analyze's key: blind_id -> condition name
    si,           \* position of the loop over scores.items() (1-based)
    by_condition, \* condition -> the score records appended to it
    by_problem,   \* <<condition, problem_id>> -> the score records appended
    groupedIds,   \* condition -> the blind_ids whose records were appended
    report,       \* what analyze has printed
    \* ---- semantic_conditioning_test.py: generate_completion
    gnPc,         \* where generate_completion is
    rawText,      \* response.content[0].text as the service sent it
    content,      \* generate_completion's content
    genResult     \* what the call returned

scoringVars == <<files, files0, blind_file, output_file, data, scores, idx, pc,
                 inMain, lastMsg, prompted, skipped, entered, endedBy, written>>

ccVars == <<ccPc, calls, encoding, tmpFiles, created, temp_name, full_code,
            outcome, ccResult>>

expVars == <<exPc, problems, n_trials, trials, ti, results, blind_outputs,
             raisedIn, resultsFile, blindFile, keyFile>>

anVars == <<anPc, aResults, aScores, aKey, si, by_condition, by_problem,
            groupedIds, report>>

genVars == <<gnPc, rawText, content, genResult>>

vars == <<scoringVars, ccVars, expVars, anVars, genVars>>

\* what a tool leaves alone: the other tools' variables
notSession == <<ccVars, expVars, anVars, genVars>>
notChecker == <<scoringVars, expVars, anVars, genVars>>
notExperiment == <<scoringVars, ccVars, anVars, genVars>>
notAnalyzer == <<scoringVars, ccVars, expVars, genVars>>
notGenerator == <<scoringVars, ccVars, expVars, anVars>>

(***************************************************************************)
(* Bounds.                                                                 *)
(***************************************************************************)
MaxSamples == 3

Min(a, b) == IF a < b THEN a ELSE b

RECURSIVE SumSeq(_)
SumSeq(s) == IF s = <<>> THEN 0 ELSE Head(s) + SumSeq(Tail(s))

Range(f) == {f[x] : x \in DOMAIN f}

EmptyMap == [x \in {} |-> 0]

(***************************************************************************)
(* semantic_conditioning_test.py: generate_completion, values.  A response *)
(* text is a sequence of atoms: the fence, the word "python", another      *)
(* word (a tag or a piece of code) and a newline; str.split and the `in`   *)
(* test act on atoms.                                                      *)
(***************************************************************************)
MaxText == 6

\* the three backquotes that open or close a code block
Fence == "fence"
Newline == "\n"
Atoms == {Fence, "python", "x", Newline}

\* the texts the service may send back
Responses == UNION {[1..n -> Atoms] : n \in 0..MaxText}

\* sub in s, and where
OccursAt(s, sub, i) ==
    /\ i + Len(sub) - 1 <= Len(s)
    /\ SubSeq(s, i, i + Len(sub) - 1) = sub
Occurrences(s, sub) == {i \in 1..Len(s) : OccursAt(s, sub, i)}
In(sub, s) == Occurrences(s, sub) # {}

\* s.split(sep): the pieces between the occurrences of sep, left to right
RECURSIVE Split(_, _)
Split(s, sep) ==
    IF ~In(sep, s) THEN <<s>>
    ELSE LET i == CHOOSE i \in Occurrences(s, sep) :
                      \A j \in Occurrences(s, sep) : i <= j
         IN  <<SubSeq(s, 1, i - 1)>> \o Split(SubSeq(s, i + Len(sep), Len(s)), sep)

\* s.strip(): whitespace goes from both ends
StripText(s) ==
    LET inked == {i \in 1..Len(s) : s[i] # Newline}
    IN  IF inked = {} THEN <<>>
        ELSE SubSeq(s, CHOOSE i \in inked : \A j \in inked : i <= j,
                       CHOOSE i \in inked : \A j \in inked : j <= i)

\* lines 123-126; the first piece of a split is [1] here, [0] in the source
Extract(text) ==
    IF In(<<Fence, "python">>, text)
    THEN Split(Split(text, <<Fence, "python">>)[2], <<Fence>>)[1]
    ELSE IF In(<<Fence>>, text)
    THEN Split(Split(text, <<Fence>>)[2], <<Fence>>)[1]
    ELSE text

GeneratorIdle ==
    /\ gnPc = "idle"
    /\ rawText = <<>>
    /\ content = <<>>
    /\ genResult = <<>>

(***************************************************************************)
(* evaluate_quality.py: values.                                            *)
(***************************************************************************)
\* blind ids a blind-eval set or a score store may hold
Ids == 1..MaxSamples

\* the number of quality dimensions of a score line
NumDimensions == 5
MinScore == 1
MaxScore == 5

\* a sample of the blind-eval set; the fields the session only prints are left out
Item(id) == [blind_id |-> id]

\* the blind-eval sets: the orchestrator gives every sample its own blind_id
DataSets ==
    {s \in UNION {[1..n -> {Item(id) : id \in Ids}] : n \in 0..MaxSamples} :
        \A i, j \in DOMAIN s : i # j => s[i] # s[j]}

\* scores[blind_id] = {...}: the ScoreRecord of a valid line
MakeRecordTotalOfFirst(parts) ==
    [edge_cases |-> parts[1], error_handling |-> parts[2],
     idiomaticity |-> parts[3], documentation |-> parts[4],
     ship_it |-> parts[5], total |-> parts[1]]

MakeRecord(parts) ==
    [edge_cases |-> parts[1], error_handling |-> parts[2],
     idiomaticity |-> parts[3], documentation |-> parts[4],
     ship_it |-> parts[5], total |-> SumSeq(parts)]

\* records an earlier session (or anything else) may have left in the scores
\* file: json.load does not validate them
OldRecord == MakeRecord(<<2, 2, 2, 2, 2>>)
ForeignRecord ==
    [edge_cases |-> 9, error_handling |-> 0, idiomaticity |-> 3,
     documentation |-> 3, ship_it |-> 3, total |-> 0]
LoadedRecords == {OldRecord, ForeignRecord}

\* JSON values: an object (a score store) or an array (a blind-eval set)
Dict(f) == [kind |-> "dict", val |-> f]
List(s) == [kind |-> "list", val |-> s]
EmptyDict == Dict(EmptyMap)

Stores == {Dict(f) : f \in UNION {[S -> LoadedRecords] : S \in SUBSET Ids}}

Absent == [exists |-> FALSE, json |-> EmptyDict]
Present(j) == [exists |-> TRUE, json |-> j]

(***************************************************************************)
(* Paths are sequences of atoms; "blind_eval_" and "scores_" are atoms, so *)
(* str.replace acts atom by atom.                                          *)
(***************************************************************************)
BlindEvalPath == <<"results/", "blind_eval_", "t1.json">>
ScoresPath == <<"results/", "scores_", "t1.json">>
RenamedPath == <<"results/", "samples.json">>
NoPath == <<>>
AllPaths == {BlindEvalPath, ScoresPath, RenamedPath}

\* blind_file.replace("blind_eval_", "scores_")
StrReplace(path, old, new) ==
    [i \in DOMAIN path |-> IF path[i] = old THEN new ELSE path[i]]

DeriveOutput(path) == StrReplace(path, "blind_eval_", "scores_")

\* with open(path, 'w') as f: json.dump(value, f)
WriteJson(fs, path, value) == [fs EXCEPT ![path] = Present(value)]

(***************************************************************************)
(* Input lines.  A line is modelled by its comma-separated tokens; the     *)
(* control inputs are the one-token lines "q" and "s".                     *)
(***************************************************************************)
Tokens == {"0", "1", "5", "6", "x", "q", "Q", "s", "", " 5", " q"}
LineLengths == {1, 4, 5, 6}
OddPositions == {0, 1, 5, 6}

\* lines of "1"s with at most one other token, at the first or a late position
Lines ==
    {[i \in 1..n |-> IF i = p THEN t ELSE "1"] :
        n \in LineLengths, p \in OddPositions, t \in Tokens}

\* str.lower on a token
Lower(t) == CASE t = "Q" -> "q" [] t = "S" -> "s" [] OTHER -> t

\* str.strip on a token
Strip(t) == CASE t = " 5" -> "5" [] t = " q" -> "q" [] OTHER -> t

\* input(...).strip().lower(): whitespace goes from the two ends of the line
Normalize(line) ==
    [i \in DOMAIN line |->
        Lower(IF i \in {1, Len(line)} THEN Strip(line[i]) ELSE line[i])]

\* int(x.strip()): whether it parses, and its value
IsInt(t) == Strip(t) \in {"0", "1", "5", "6"}
IntOf(t) ==
    CASE Strip(t) = "0" -> 0 [] Strip(t) = "1" -> 1
      [] Strip(t) = "5" -> 5 [] Strip(t) = "6" -> 6

\* parts = [int(x.strip()) for x in response.split(',')]
Parses(response) == \A i \in DOMAIN response : IsInt(response[i])
Parts(response) == [i \in DOMAIN response |-> IntOf(response[i])]

\* all(1 <= x <= 5 for x in parts)
InRangeFromZero(parts) ==
    \A i \in DOMAIN parts : 0 <= parts[i] /\ parts[i] <= MaxScore

InRange(parts) ==
    \A i \in DOMAIN parts : MinScore <= parts[i] /\ parts[i] <= MaxScore

\* the messages of lines 128, 131 and 146
RejectMessages ==
    {"Need exactly 5 scores", "Scores must be 1-5", "Invalid format. Use: 3,2,4,3,3"}

\* what the input loop does with a normalised response
Verdict(response) ==
    IF response = <<"q">> THEN "quit"
    ELSE IF response = <<"s">> THEN "skip"
    ELSE IF ~Parses(response) THEN "Invalid format. Use: 3,2,4,3,3"
    ELSE IF Len(response) # NumDimensions THEN "Need exactly 5 scores"
    ELSE IF ~InRange(Parts(response)) THEN "Scores must be 1-5"
    ELSE "record"

\* what the input loop can answer, over the lines an operator can type
Answers == {Verdict(Normalize(line)) : line \in Lines}

\* blind_id in scores: a key of an object; never an element of an array of samples
Contains(sc, id) == sc.kind = "dict" /\ id \in DOMAIN sc.val

\* scores = {}, replaced by json.load(f) if Path(output_file).exists()
LoadScoresFresh(fs, path) == EmptyDict

LoadScores(fs, path) == IF fs[path].exists THEN fs[path].json ELSE EmptyDict

\* scores[blind_id] = record, on an object
Assign(sc, id, rec) ==
    Dict([k \in DOMAIN sc.val \cup {id} |-> IF k = id THEN rec ELSE sc.val[k]])

\* json.dump(scores, f) on quit; cur is the sample being shown
NullRecord ==
    [edge_cases |-> 0, error_handling |-> 0, idiomaticity |-> 0,
     documentation |-> 0, ship_it |-> 0, total |-> 0]

QuitDumpWithCurrent(sc, cur) == Assign(sc, cur, NullRecord)

QuitDump(sc, cur) == sc

(***************************************************************************)
(* semantic_conditioning_test.py: check_correctness, values.               *)
(***************************************************************************)
MaxCalls == 2

\* result.stderr[:500], str(e)[:500]
ErrorLimit == 500

\* a text is a sequence of characters
Text(n) == [i \in 1..n |-> IF i % 2 = 0 THEN "r" ELSE "e"]
TimeoutText == <<"T", "i", "m", "e", "o", "u", "t">>

\* s[:n]
TruncateNone(s, n) == s

Truncate(s, n) == SubSeq(s, 1, Min(Len(s), n))

\* the lengths of stderr and of exception texts: empty, short, at the limit,
\* past it
TextLengths == {0, 3, ErrorLimit - 1, ErrorLimit, ErrorLimit + 1, ErrorLimit + 40}

\* the inputs of a call: code is a sequence of pieces
PromptText == <<"def f(x):">>
TestText == <<"def check(candidate): ...">>
EntryPoint == <<"f">>
Completions == {<<>>, <<"return x">>, <<"return x  # shokunin: ", "NONASCII">>}

\* f"{prompt}{completion}\n\n{test}\n\ncheck({entry_point})"
FullCode(prompt, completion, test, entry_point) ==
    prompt \o completion \o <<"\n\n">> \o test \o <<"\n\ncheck(">>
        \o entry_point \o <<")">>

\* whether f.write(full_code) can encode the text
Encodable(code, enc) ==
    enc = "utf-8" \/ \A i \in DOMAIN code : code[i] # "NONASCII"

Encodings == {"utf-8", "ascii"}

\* Optional[str]
NoError == [none |-> TRUE, text |-> <<>>]
ErrorText(t) == [none |-> FALSE, text |-> t]

\* how a call ends
Returns(passed, error) ==
    [kind |-> "return", passed |-> passed, error |-> error, exc |-> ""]
Raises(exc) ==
    [kind |-> "raise", passed |-> FALSE, error |-> NoError, exc |-> exc]
NoResult == [kind |-> "none", passed |-> FALSE, error |-> NoError, exc |-> ""]

\* what subprocess.run can do
NoOutcome == [kind |-> "none", text |-> <<>>]
Outcomes ==
    {[kind |-> "zero", text |-> <<>>], [kind |-> "timeout", text |-> <<>>]}
    \cup {[kind |-> k, text |-> Text(n)] :
             k \in {"nonzero", "launch_failure"}, n \in TextLengths}

\* lines 142-156: the try block's return value
ResultOf(out) ==
    IF out.kind = "zero" THEN Returns(TRUE, NoError)
    ELSE IF out.kind = "nonzero"
        THEN Returns(FALSE, ErrorText(Truncate(out.text, ErrorLimit)))
    ELSE IF out.kind = "timeout" THEN Returns(FALSE, ErrorText(TimeoutText))
    ELSE Returns(FALSE, ErrorText(Truncate(out.text, ErrorLimit)))

CheckerIdle ==
    /\ ccPc = "idle"
    /\ calls = 0
    /\ encoding = "utf-8"
    /\ tmpFiles = {}
    /\ created = FALSE
    /\ temp_name = 0
    /\ full_code = <<>>
    /\ outcome = NoOutcome
    /\ ccResult = NoResult

(***************************************************************************)
(* semantic_conditioning_test.py: run_experiment, values.                  *)
(***************************************************************************)
\* how many of CONDITIONS the model runs
NumConditions == 2

\* CONDITIONS, by name, in order
ConditionNames ==
    <<"control", "common_english", "greek_arete", "japanese_shokunin", "combined">>
Conditions == SubSeq(ConditionNames, 1, NumConditions)

\* what load_humaneval_problems may return, and -n
ProblemChoices == {<<>>, <<"HumanEval/2">>}
TrialCounts == {0, 1}

\* problem["prompt"]
PromptOf(problem_id) == <<"def ", problem_id>>

\* lines 180-185: problems x CONDITIONS x range(n), problems outermost
TrialList(probs, conds, n) ==
    [k \in 1..(Len(probs) * Len(conds) * n) |->
        [problem_id |-> probs[((k - 1) \div (Len(conds) * n)) + 1],
         condition |-> conds[(((k - 1) \div n) % Len(conds)) + 1]]]

\* random.shuffle: every order of the sequence
Shuffles(seq) ==
    {[i \in DOMAIN seq |-> seq[perm[i]]] : perm \in Permutations(DOMAIN seq)}

\* how generate_completion ends
GenerateEnds ==
    {[kind |-> "raise", completion |-> <<>>, exc |-> <<"APIError">>]}
    \cup {[kind |-> "return", completion |-> c, exc |-> <<>>] :
             c \in {<<"return x">>, <<"pass">>}}

\* how check_correctness ends: see ResultOf and WriteCode
CheckEnds ==
    {Raises("UnicodeEncodeError"),
     ResultOf([kind |-> "zero", text |-> <<>>]),
     ResultOf([kind |-> "nonzero", text |-> Text(3)])}

\* lines 194-211: the try block and its except Exception clause
TrialEndCheckUncaught(gen, chk) ==
    IF gen.kind = "raise"
    THEN [aborted |-> FALSE, raised |-> "generate", completion |-> <<>>,
          passed |-> FALSE,
          error |-> ErrorText(<<"Generation error: ">> \o gen.exc)]
    ELSE IF chk.kind = "raise"
    THEN [aborted |-> TRUE, raised |-> "check", completion |-> gen.completion,
          passed |-> FALSE, error |-> NoError]
    ELSE [aborted |-> FALSE, raised |-> "none", completion |-> gen.completion,
          passed |-> chk.passed, error |-> chk.error]

TrialEnd(gen, chk) ==
    IF gen.kind = "raise"
    THEN [aborted |-> FALSE, raised |-> "generate", completion |-> <<>>,
          passed |-> FALSE,
          error |-> ErrorText(<<"Generation error: ">> \o gen.exc)]
    ELSE IF chk.kind = "raise"
    THEN [aborted |-> FALSE, raised |-> "check", completion |-> <<>>,
          passed |-> FALSE,
          error |-> ErrorText(<<"Generation error: ">> \o <<chk.exc>>)]
    ELSE [aborted |-> FALSE, raised |-> "none", completion |-> gen.completion,
          passed |-> chk.passed, error |-> chk.error]

\* lines 214-216: the first 12 hex digits of a hash of the time and a random
\* number: a value no earlier trial got (named by the next integer) or, by
\* collision, the value of an earlier trial
BlindIdChoices(rs) == 1..(Cardinality({rs[i].blind_id : i \in DOMAIN rs}) + 1)

\* lines 218-226
TrialResult(trial, end, time, bid) ==
    [problem_id |-> trial.problem_id, condition |-> trial.condition,
     completion |-> end.completion, passed |-> end.passed, error |-> end.error,
     timestamp |-> time, blind_id |-> bid]

\* lines 230-237
BlindOutput(trial, end, bid) ==
    [blind_id |-> bid, problem_id |-> trial.problem_id,
     prompt |-> PromptOf(trial.problem_id), completion |-> end.completion,
     passed |-> end.passed]

\* line 251: {r["blind_id"]: r["condition"] for r in results}: a later entry
\* replaces an earlier one of the same blind_id
KeyMappingFirstWins(rs) ==
    [id \in {rs[i].blind_id : i \in DOMAIN rs} |->
        rs[CHOOSE i \in DOMAIN rs :
              /\ rs[i].blind_id = id
              /\ \A j \in DOMAIN rs : rs[j].blind_id = id => i <= j].condition]

KeyMapping(rs) ==
    [id \in {rs[i].blind_id : i \in DOMAIN rs} |->
        rs[CHOOSE i \in DOMAIN rs :
              /\ rs[i].blind_id = id
              /\ \A j \in DOMAIN rs : rs[j].blind_id = id => j <= i].condition]

\* a file run_experiment has not written yet
NotWritten == [written |-> FALSE, json |-> <<>>]
Written(j) == [written |-> TRUE, json |-> j]

ExperimentIdle ==
    /\ exPc = "idle"
    /\ problems = <<>>
    /\ n_trials = 0
    /\ trials = <<>>
    /\ ti = 1
    /\ results = <<>>
    /\ blind_outputs = <<>>
    /\ raisedIn = <<>>
    /\ resultsFile = NotWritten
    /\ blindFile = NotWritten
    /\ keyFile = NotWritten

(***************************************************************************)
(* reveal_results.py: analyze, values.                                     *)
(***************************************************************************)
MaxResults == 3

\* line 63: condition_order
condition_order == ConditionNames

\* the blind_ids a scores file or a key file may hold; results entry i has
\* blind_id i
AnalyzerIds == {1, 2}
\* condition names a key file may give: two of this experiment's, and one of
\* another run's
KeyConditions == {"control", "greek_arete", "other_arm"}
ResultConditions == {"control", "greek_arete"}

ResultSeqs ==
    UNION {[1..n -> [condition : ResultConditions, passed : BOOLEAN]] :
              n \in 0..MaxResults}

ResultEntry(i, r) ==
    [blind_id |-> i, problem_id |-> "HumanEval/2", condition |-> r.condition,
     passed |-> r.passed]

ScoreChoices == {MakeRecord(<<1, 1, 1, 1, 1>>), MakeRecord(<<5, 5, 5, 5, 1>>)}
ScoreFiles == UNION {[S -> ScoreChoices] : S \in SUBSET AnalyzerIds}
KeyFiles == UNION {[S -> KeyConditions] : S \in SUBSET AnalyzerIds}

\* scores.items(): the store's entries in file order, here by blind_id
RECURSIVE Ordered(_)
Ordered(S) ==
    IF S = {} THEN <<>>
    ELSE LET least == CHOOSE x \in S : \A y \in S : x <= y
         IN  <<least>> \o Ordered(S \ {least})

\* line 38-39: condition = key.get(blind_id); if condition:
\* (the names a key file gives are non-empty, so only None is falsy)
LookupDefaultControl(k, id) ==
    IF id \in DOMAIN k THEN [found |-> TRUE, condition |-> k[id]]
    ELSE [found |-> TRUE, condition |-> "control"]

Lookup(k, id) ==
    IF id \in DOMAIN k THEN [found |-> TRUE, condition |-> k[id]]
    ELSE [found |-> FALSE, condition |-> ""]

\* defaultdict(list)[k].append(v)
AppendTo(d, k, v) ==
    [x \in DOMAIN d \cup {k} |->
        IF x = k THEN (IF k \in DOMAIN d THEN Append(d[k], v) ELSE <<v>>)
        ELSE d[x]]

\* lines 43-46: the problem_id of the first results entry of that blind_id
ProblemOf(rs, id) ==
    LET hits == {i \in DOMAIN rs : rs[i].blind_id = id} IN
    IF hits = {} THEN [found |-> FALSE, problem_id |-> ""]
    ELSE [found |-> TRUE,
          problem_id |-> rs[CHOOSE i \in hits : \A j \in hits : i <= j].problem_id]

\* lines 65-77: one row per condition of condition_order that has a group
SummaryRows(byc) ==
    [c \in {x \in Range(condition_order) : x \in DOMAIN byc} |->
        [n |-> Len(byc[c]),
         total_sum |-> SumSeq([i \in DOMAIN byc[c] |-> byc[c][i].total])]]

\* lines 131-136: passed / total per condition of condition_order
PassRows(rs) ==
    [c \in Range(condition_order) |->
        [passed |-> Cardinality({i \in DOMAIN rs :
                                   rs[i].condition = c /\ rs[i].passed}),
         total |-> Cardinality({i \in DOMAIN rs : rs[i].condition = c})]]

NoReport ==
    [summary |-> EmptyMap, no_control |-> FALSE, comparison |-> FALSE,
     pass_printed |-> FALSE, pass_rate |-> EmptyMap, interpretation |-> FALSE]

AnalyzerIdle ==
    /\ anPc = "idle"
    /\ aResults = <<>>
    /\ aScores = EmptyMap
    /\ aKey = EmptyMap
    /\ si = 1
    /\ by_condition = EmptyMap
    /\ by_problem = EmptyMap
    /\ groupedIds = EmptyMap
    /\ report = NoReport

(***************************************************************************)
(* evaluate_quality.py: the session.                                       *)
(***************************************************************************)
SessionFresh ==
    /\ scores = EmptyDict
    /\ idx = 1
    /\ lastMsg = ""
    /\ prompted = {}
    /\ skipped = {}
    /\ entered = EmptyMap
    /\ endedBy = ""
    /\ written = {}

\* evaluate_interactively(data, output_file) called on a scores file that is
\* absent or holds a score store
Init ==
    /\ GeneratorIdle
    /\ AnalyzerIdle
    /\ CheckerIdle
    /\ ExperimentIdle
    /\ data \in DataSets
    /\ \E st \in {Absent} \cup {Present(j) : j \in Stores} :
        files = [p \in AllPaths |-> IF p = ScoresPath THEN st ELSE Absent]
    /\ files0 = files
    /\ blind_file = NoPath
    /\ output_file = ScoresPath
    /\ inMain = FALSE
    /\ pc = "start"
    /\ SessionFresh

\* lines 85-90
Load ==
    /\ pc = "start"
    /\ scores' = LoadScores(files, output_file)
    /\ pc' = "loop"
    /\ UNCHANGED <<notSession, files, files0, blind_file, output_file, data, idx, inMain,
                   lastMsg, prompted, skipped, entered, endedBy, written>>

\* lines 92-97
AlreadyScored ==
    /\ pc = "loop"
    /\ idx <= Len(data)
    /\ Contains(scores, data[idx].blind_id)
    /\ idx' = idx + 1
    /\ UNCHANGED <<notSession, files, files0, blind_file, output_file, data, scores, pc,
                   inMain, lastMsg, prompted, skipped, entered, endedBy, written>>

\* lines 92-109
ShowSample ==
    /\ pc = "loop"
    /\ idx <= Len(data)
    /\ ~Contains(scores, data[idx].blind_id)
    /\ pc' = "prompt"
    /\ prompted' = prompted \cup {idx}
    /\ UNCHANGED <<notSession, files, files0, blind_file, output_file, data, scores, idx,
                   inMain, lastMsg, skipped, entered, endedBy, written>>

\* lines 112-119
Quit ==
    /\ pc = "prompt"
    /\ \E line \in Lines : Verdict(Normalize(line)) = "quit"
    /\ files' = WriteJson(files, output_file,
                          QuitDump(scores, data[idx].blind_id))
    /\ written' = written \cup {output_file}
    /\ endedBy' = "quit"
    /\ pc' = "done"
    /\ UNCHANGED <<notSession, files0, blind_file, output_file, data, scores, idx, inMain,
                   lastMsg, prompted, skipped, entered>>

\* lines 112-123
Skip ==
    /\ pc = "prompt"
    /\ \E line \in Lines : Verdict(Normalize(line)) = "skip"
    /\ skipped' = skipped \cup {idx}
    /\ lastMsg' = "Skipped"
    /\ idx' = idx + 1
    /\ pc' = "loop"
    /\ UNCHANGED <<notSession, files, files0, blind_file, output_file, data, scores,
                   inMain, prompted, entered, endedBy, written>>

\* lines 125-132 and 145-146: the message is printed and the loop goes round
RejectWith(msg) ==
    /\ pc = "prompt"
    /\ lastMsg' = msg
    /\ UNCHANGED <<notSession, files, files0, blind_file, output_file, data, scores, idx,
                   pc, inMain, prompted, skipped, entered, endedBy, written>>

\* one line that is answered with a message
RejectOn(line) ==
    /\ Verdict(Normalize(line)) \in RejectMessages
    /\ RejectWith(Verdict(Normalize(line)))

\* some line the operator can type gets the message
Reject == \E msg \in RejectMessages \cap Answers : RejectWith(msg)

\* lines 125-143: one line that is recorded
RecordOn(line) ==
    /\ pc = "prompt"
    /\ scores.kind = "dict"
    /\ Verdict(Normalize(line)) = "record"
    /\ scores' = Assign(scores, data[idx].blind_id,
                        MakeRecord(Parts(Normalize(line))))
    /\ entered' = [k \in DOMAIN entered \cup {idx} |->
                      IF k = idx THEN Parts(Normalize(line)) ELSE entered[k]]
    /\ lastMsg' = "Recorded"
    /\ idx' = idx + 1
    /\ pc' = "loop"
    /\ UNCHANGED <<notSession, files, files0, blind_file, output_file, data, inMain,
                   prompted, skipped, endedBy, written>>

Record == \E line \in Lines : RecordOn(line)

\* lines 111-146: one pass of the input loop, on the line the operator typed
Respond(line) ==
    \/ Verdict(Normalize(line)) = "quit" /\ Quit
    \/ Verdict(Normalize(line)) = "skip" /\ Skip
    \/ RejectOn(line)
    \/ RecordOn(line)

\* lines 148-153
FinalSave ==
    /\ pc = "loop"
    /\ idx > Len(data)
    /\ files' = WriteJson(files, output_file, scores)
    /\ written' = written \cup {output_file}
    /\ endedBy' = "completed"
    /\ pc' = "done"
    /\ UNCHANGED <<notSession, files0, blind_file, output_file, data, scores, idx, inMain,
                   lastMsg, prompted, skipped, entered>>

Next ==
    \/ Load
    \/ AlreadyScored
    \/ ShowSample
    \/ Quit
    \/ Skip
    \/ Reject
    \/ Record
    \/ FinalSave

Spec == Init /\ [][Next]_vars

\* the same session on the blind-eval sets and score stores of at most
\* MaxShown samples
MaxShown == 2

InitPrompt ==
    /\ Init
    /\ Len(data) <= MaxShown
    /\ \A k \in DOMAIN data : data[k].blind_id <= MaxShown
    /\ \A id \in DOMAIN files[ScoresPath].json.val : id <= MaxShown

SpecPrompt == InitPrompt /\ [][Next]_vars

(***************************************************************************)
(* evaluate_quality.py: main().                                            *)
(***************************************************************************)
\* the blind-eval file is the orchestrator's, under its own name or renamed
BlindPaths == {BlindEvalPath, RenamedPath}

InitMain ==
    /\ GeneratorIdle
    /\ AnalyzerIdle
    /\ CheckerIdle
    /\ ExperimentIdle
    /\ blind_file \in BlindPaths
    /\ \E d \in DataSets, st \in {Absent} \cup {Present(j) : j \in Stores} :
        files = [p \in AllPaths |->
                    IF p = blind_file THEN Present(List(d))
                    ELSE IF p = DeriveOutput(blind_file) THEN st
                    ELSE Absent]
    /\ files0 = files
    /\ data = <<>>
    /\ output_file = NoPath
    /\ inMain = TRUE
    /\ pc = "main"
    /\ SessionFresh

\* lines 162-168: load_blind_data, derive the output filename, call the session
Main ==
    /\ pc = "main"
    /\ data' = files[blind_file].json.val
    /\ output_file' = DeriveOutput(blind_file)
    /\ pc' = "start"
    /\ UNCHANGED <<notSession, files, files0, blind_file, scores, idx, inMain, lastMsg,
                   prompted, skipped, entered, endedBy, written>>

\* line 134 when scores is an array: a str index raises TypeError, which the
\* except ValueError clause does not catch
RecordTypeError ==
    /\ pc = "prompt"
    /\ scores.kind = "list"
    /\ \E line \in Lines : Verdict(Normalize(line)) = "record"
    /\ pc' = "crashed"
    /\ UNCHANGED <<notSession, files, files0, blind_file, output_file, data, scores, idx,
                   inMain, lastMsg, prompted, skipped, entered, endedBy, written>>

\* lines 170-173: the average needs scores.values()
MainReport ==
    /\ pc = "done"
    /\ inMain
    /\ pc' = IF scores.kind = "list" /\ scores.val # <<>> THEN "crashed" ELSE "exit"
    /\ UNCHANGED <<notSession, files, files0, blind_file, output_file, data, scores, idx,
                   inMain, lastMsg, prompted, skipped, entered, endedBy, written>>

NextMain ==
    \/ Main
    \/ Load
    \/ AlreadyScored
    \/ ShowSample
    \/ Quit
    \/ Skip
    \/ Reject
    \/ Record
    \/ RecordTypeError
    \/ FinalSave
    \/ MainReport

SpecMain == InitMain /\ [][NextMain]_vars

(***************************************************************************)
(* semantic_conditioning_test.py: check_correctness.                       *)
(***************************************************************************)
SessionIdle ==
    /\ files = [p \in AllPaths |-> Absent]
    /\ files0 = files
    /\ blind_file = NoPath
    /\ output_file = NoPath
    /\ data = <<>>
    /\ inMain = FALSE
    /\ pc = "idle"
    /\ SessionFresh

InitChecker ==
    /\ GeneratorIdle
    /\ AnalyzerIdle
    /\ SessionIdle
    /\ ExperimentIdle
    /\ ccPc = "idle"
    /\ calls = 0
    /\ encoding \in Encodings
    /\ tmpFiles = {}
    /\ created = FALSE
    /\ temp_name = 0
    /\ full_code = <<>>
    /\ outcome = NoOutcome
    /\ ccResult = NoResult

\* lines 131-135: a call, and the program it assembles
CallCheck ==
    /\ ccPc \in {"idle", "returned", "raised"}
    /\ calls < MaxCalls
    /\ calls' = calls + 1
    /\ \E completion \in Completions :
        full_code' = FullCode(PromptText, completion, TestText, EntryPoint)
    /\ created' = FALSE
    /\ temp_name' = 0
    /\ outcome' = NoOutcome
    /\ ccResult' = NoResult
    /\ ccPc' = "create"
    /\ UNCHANGED <<notChecker, encoding, tmpFiles>>

\* line 137: NamedTemporaryFile(mode='w', suffix='.py', delete=False) makes a
\* file of a fresh name, or raises OSError and makes none
CreateTemp ==
    /\ ccPc = "create"
    /\ \/ /\ tmpFiles' = tmpFiles \cup {calls}
          /\ temp_name' = calls
          /\ created' = TRUE
          /\ ccPc' = "write"
          /\ UNCHANGED ccResult
       \/ /\ ccResult' = Raises("OSError")
          /\ ccPc' = "raised"
          /\ UNCHANGED <<tmpFiles, temp_name, created>>
    /\ UNCHANGED <<notChecker, calls, encoding, full_code, outcome>>

\* lines 137-140: f.write, f.flush and temp_path = f.name inside the with
\* block; on an exception the with block closes the file, which delete=False
\* keeps, and the exception leaves check_correctness
WriteCode ==
    /\ ccPc = "write"
    /\ \/ /\ Encodable(full_code, encoding)
          /\ ccPc' = "run"
          /\ UNCHANGED ccResult
       \/ /\ ~Encodable(full_code, encoding)
          /\ ccResult' = Raises("UnicodeEncodeError")
          /\ ccPc' = "raised"
       \/ /\ ccResult' = Raises("OSError")
          /\ ccPc' = "raised"
    /\ UNCHANGED <<notChecker, calls, encoding, tmpFiles, created, temp_name,
                   full_code, outcome>>

\* lines 142-156: subprocess.run and the value the try block returns
RunSubprocess ==
    /\ ccPc = "run"
    /\ \E out \in Outcomes :
        /\ outcome' = out
        /\ ccResult' = ResultOf(out)
    /\ ccPc' = "finally"
    /\ UNCHANGED <<notChecker, calls, encoding, tmpFiles, created, temp_name,
                   full_code>>

\* lines 157-158: os.unlink(temp_path), then the pending return
Unlink ==
    /\ ccPc = "finally"
    /\ IF temp_name \in tmpFiles
       THEN /\ tmpFiles' = tmpFiles \ {temp_name}
            /\ ccPc' = "returned"
            /\ UNCHANGED ccResult
       ELSE /\ ccResult' = Raises("FileNotFoundError")
            /\ ccPc' = "raised"
            /\ UNCHANGED tmpFiles
    /\ UNCHANGED <<notChecker, calls, encoding, created, temp_name, full_code,
                   outcome>>

NextChecker ==
    \/ CallCheck
    \/ CreateTemp
    \/ WriteCode
    \/ RunSubprocess
    \/ Unlink

SpecChecker == InitChecker /\ [][NextChecker]_vars

(***************************************************************************)
(* semantic_conditioning_test.py: run_experiment.                          *)
(***************************************************************************)
InitExperiment ==
    /\ GeneratorIdle
    /\ AnalyzerIdle
    /\ SessionIdle
    /\ CheckerIdle
    /\ exPc = "start"
    /\ problems \in ProblemChoices
    /\ n_trials \in TrialCounts
    /\ trials = <<>>
    /\ ti = 1
    /\ results = <<>>
    /\ blind_outputs = <<>>
    /\ raisedIn = <<>>
    /\ resultsFile = NotWritten
    /\ blindFile = NotWritten
    /\ keyFile = NotWritten

\* lines 168-188: load the problems, build the trials, shuffle them
BuildTrials ==
    /\ exPc = "start"
    /\ trials' \in Shuffles(TrialList(problems, Conditions, n_trials))
    /\ exPc' = "loop"
    /\ UNCHANGED <<notExperiment, problems, n_trials, ti, results,
                   blind_outputs, raisedIn, resultsFile, blindFile, keyFile>>

\* lines 190-237: one trial
RunTrial ==
    /\ exPc = "loop"
    /\ ti <= Len(trials)
    /\ \E gen \in GenerateEnds, chk \in CheckEnds, bid \in BlindIdChoices(results) :
        LET end == TrialEnd(gen, chk) IN
        IF end.aborted
        THEN /\ exPc' = "aborted"
             /\ raisedIn' = Append(raisedIn, end.raised)
             /\ UNCHANGED <<ti, results, blind_outputs>>
        ELSE /\ results' = Append(results, TrialResult(trials[ti], end, ti, bid))
             /\ blind_outputs' = Append(blind_outputs,
                                        BlindOutput(trials[ti], end, bid))
             /\ raisedIn' = Append(raisedIn, end.raised)
             /\ ti' = ti + 1
             /\ UNCHANGED exPc
    /\ UNCHANGED <<notExperiment, problems, n_trials, trials, resultsFile,
                   blindFile, keyFile>>

\* lines 239-243
SaveResults ==
    /\ exPc = "loop"
    /\ ti > Len(trials)
    /\ resultsFile' = Written(results)
    /\ exPc' = "save_blind"
    /\ UNCHANGED <<notExperiment, problems, n_trials, trials, ti, results,
                   blind_outputs, raisedIn, blindFile, keyFile>>

\* lines 245-248: shuffle blind_outputs in place, then dump it
SaveBlind ==
    /\ exPc = "save_blind"
    /\ blind_outputs' \in Shuffles(blind_outputs)
    /\ blindFile' = Written(blind_outputs')
    /\ exPc' = "save_key"
    /\ UNCHANGED <<notExperiment, problems, n_trials, trials, ti, results,
                   raisedIn, resultsFile, keyFile>>

\* lines 250-253
SaveKey ==
    /\ exPc = "save_key"
    /\ keyFile' = Written(KeyMapping(results))
    /\ exPc' = "summary"
    /\ UNCHANGED <<notExperiment, problems, n_trials, trials, ti, results,
                   blind_outputs, raisedIn, resultsFile, blindFile>>

\* lines 255-289: the printed summary and the returned dict, whose
\* overall_pass_rate divides by len(results)
Summary ==
    /\ exPc = "summary"
    /\ exPc' = IF Len(results) = 0 THEN "crashed" ELSE "done"
    /\ UNCHANGED <<notExperiment, problems, n_trials, trials, ti, results,
                   blind_outputs, raisedIn, resultsFile, blindFile, keyFile>>

NextExperiment ==
    \/ BuildTrials
    \/ RunTrial
    \/ SaveResults
    \/ SaveBlind
    \/ SaveKey
    \/ Summary

SpecExperiment == InitExperiment /\ [][NextExperiment]_vars

(***************************************************************************)
(* reveal_results.py: analyze.                                             *)
(***************************************************************************)
InitAnalyze ==
    /\ GeneratorIdle
    /\ SessionIdle
    /\ CheckerIdle
    /\ ExperimentIdle
    /\ anPc = "group"
    /\ \E rs \in ResultSeqs :
        aResults = [i \in DOMAIN rs |-> ResultEntry(i, rs[i])]
    /\ aScores \in ScoreFiles
    /\ aKey \in KeyFiles
    /\ si = 1
    /\ by_condition = EmptyMap
    /\ by_problem = EmptyMap
    /\ groupedIds = EmptyMap
    /\ report = NoReport

\* lines 37-46: one iteration of the loop over scores.items()
GroupStep ==
    /\ anPc = "group"
    /\ si <= Len(Ordered(DOMAIN aScores))
    /\ LET blind_id == Ordered(DOMAIN aScores)[si]
           score_data == aScores[blind_id]
           look == Lookup(aKey, blind_id)
           prob == ProblemOf(aResults, blind_id)
       IN  IF look.found
           THEN /\ by_condition' = AppendTo(by_condition, look.condition, score_data)
                /\ groupedIds' = AppendTo(groupedIds, look.condition, blind_id)
                /\ by_problem' =
                      IF prob.found
                      THEN AppendTo(by_problem,
                                    <<look.condition, prob.problem_id>>, score_data)
                      ELSE by_problem
           ELSE UNCHANGED <<by_condition, groupedIds, by_problem>>
    /\ si' = si + 1
    /\ UNCHANGED <<notAnalyzer, anPc, aResults, aScores, aKey, report>>

\* lines 48-82: the summary table
SummaryTable ==
    /\ anPc = "group"
    /\ si > Len(Ordered(DOMAIN aScores))
    /\ report' = [report EXCEPT !.summary = SummaryRows(by_condition)]
    /\ anPc' = "compare"
    /\ UNCHANGED <<notAnalyzer, aResults, aScores, aKey, si, by_condition,
                   by_problem, groupedIds>>

\* lines 84-86: no control group: print the message and return
NoControl ==
    /\ anPc = "compare"
    /\ "control" \notin DOMAIN by_condition
    /\ report' = [report EXCEPT !.no_control = TRUE]
    /\ anPc' = "returned"
    /\ UNCHANGED <<notAnalyzer, aResults, aScores, aKey, si, by_condition,
                   by_problem, groupedIds>>

\* lines 88-124: the comparison with control and the dimension breakdown
Comparison ==
    /\ anPc = "compare"
    /\ "control" \in DOMAIN by_condition
    /\ report' = [report EXCEPT !.comparison = TRUE]
    /\ anPc' = "pass_rate"
    /\ UNCHANGED <<notAnalyzer, aResults, aScores, aKey, si, by_condition,
                   by_problem, groupedIds>>

\* lines 126-136: the pass rate per condition, from results
PassRate ==
    /\ anPc = "pass_rate"
    /\ report' = [report EXCEPT !.pass_printed = TRUE,
                                !.pass_rate = PassRows(aResults)]
    /\ anPc' = "interpret"
    /\ UNCHANGED <<notAnalyzer, aResults, aScores, aKey, si, by_condition,
                   by_problem, groupedIds>>

\* lines 138-161: the best condition and the closing text
Interpretation ==
    /\ anPc = "interpret"
    /\ report' = [report EXCEPT !.interpretation = TRUE]
    /\ anPc' = "returned"
    /\ UNCHANGED <<notAnalyzer, aResults, aScores, aKey, si, by_condition,
                   by_problem, groupedIds>>

NextAnalyze ==
    \/ GroupStep
    \/ SummaryTable
    \/ NoControl
    \/ Comparison
    \/ PassRate
    \/ Interpretation

SpecAnalyze == InitAnalyze /\ [][NextAnalyze]_vars

(***************************************************************************)
(* Properties of analyze.                                                  *)
(***************************************************************************)
RECURSIVE SumLens(_, _)
SumLens(d, S) ==
    IF S = {} THEN 0
    ELSE LET c == CHOOSE x \in S : TRUE IN Len(d[c]) + SumLens(d, S \ {c})

\* the places of the groups that hold blind_id id
PlacesOf(id) ==
    {<<c, i>> \in UNION {{c} \X DOMAIN groupedIds[c] : c \in DOMAIN groupedIds} :
        groupedIds[c][i] = id}

\* C9: once the grouping loop has run, every scored blind_id the key maps
\* to a condition is in exactly one place of the groups, in the group of
\* the condition the key gives it, with its own score record; a scored
\* blind_id absent from the key is in no group and analyze goes on; the
\* groups' sample counts sum to the number of scored blind_ids in the key,
\* and the printed rows carry those counts.
C9_GroupedByKey ==
    anPc # "group" =>
        /\ DOMAIN by_condition = DOMAIN groupedIds
        /\ \A c \in DOMAIN by_condition : Len(by_condition[c]) = Len(groupedIds[c])
        /\ \A id \in DOMAIN aScores :
              IF id \in DOMAIN aKey
              THEN /\ Cardinality(PlacesOf(id)) = 1
                   /\ \A pl \in PlacesOf(id) :
                         /\ pl[1] = aKey[id]
                         /\ by_condition[pl[1]][pl[2]] = aScores[id]
              ELSE PlacesOf(id) = {}
        /\ SumLens(by_condition, DOMAIN by_condition)
              = Cardinality(DOMAIN aScores \cap DOMAIN aKey)
        /\ \A c \in DOMAIN report.summary :
              report.summary[c].n
                 = Cardinality({id \in DOMAIN aScores :
                                  id \in DOMAIN aKey /\ aKey[id] = c})

C9_Witness ==
    /\ anPc = "returned"
    /\ \E id \in DOMAIN aScores : id \notin DOMAIN aKey
    /\ \E id \in DOMAIN aScores : id \in DOMAIN aKey
    /\ report.interpretation

\* C10: when analyze has returned it has reported, for each condition of
\* condition_order, the number of results with that condition whose passed
\* is true over the number of results with that condition, whatever the
\* scores and the key are.
C10_PassRateReported ==
    anPc = "returned" =>
        /\ report.pass_printed
        /\ \A c \in Range(condition_order) :
              /\ c \in DOMAIN report.pass_rate
              /\ report.pass_rate[c].passed
                    = Cardinality({i \in DOMAIN aResults :
                                     aResults[i].condition = c /\ aResults[i].passed})
              /\ report.pass_rate[c].total
                    = Cardinality({i \in DOMAIN aResults : aResults[i].condition = c})

(***************************************************************************)
(* Properties of run_experiment.                                           *)
(***************************************************************************)
\* the three files are written
BatchFinished == exPc \in {"summary", "done", "crashed"}

\* a results entry without its condition field
MinusCondition(r) ==
    [problem_id |-> r.problem_id, completion |-> r.completion,
     passed |-> r.passed, error |-> r.error, timestamp |-> r.timestamp,
     blind_id |-> r.blind_id]

\* C4 as stated: every blind-eval entry's blind_id is in the key file, and
\* the entry is the results entry of that blind_id minus its condition
\* field, the condition being the one the key gives.
C4_BlindIsResultsMinusCondition ==
    BatchFinished =>
        \A b \in Range(blindFile.json) :
            /\ b.blind_id \in DOMAIN keyFile.json
            /\ \E i \in DOMAIN resultsFile.json :
                  /\ resultsFile.json[i].blind_id = b.blind_id
                  /\ resultsFile.json[i].condition = keyFile.json[b.blind_id]
                  /\ b = MinusCondition(resultsFile.json[i])

\* the last results entry of a blind_id
LastWith(rs, id) ==
    CHOOSE i \in DOMAIN rs :
        /\ rs[i].blind_id = id
        /\ \A j \in DOMAIN rs : rs[j].blind_id = id => j <= i

\* C4 as amended: there are as many blind-eval entries as results; every
\* blind-eval entry has exactly the fields blind_id, problem_id, prompt,
\* completion and passed, its blind_id is in the key file, and it agrees
\* with a results entry of that blind_id on problem_id, completion and
\* passed, its prompt being that problem's; the key file gives each
\* blind_id the condition of the last results entry that carries it (the
\* only one unless two blind_ids collide).
C4_BlindAndKeyMatchResults ==
    BatchFinished =>
        /\ Len(blindFile.json) = Len(resultsFile.json)
        /\ \A b \in Range(blindFile.json) :
            /\ DOMAIN b = {"blind_id", "problem_id", "prompt", "completion", "passed"}
            /\ b.blind_id \in DOMAIN keyFile.json
            /\ \E i \in DOMAIN resultsFile.json :
                  /\ resultsFile.json[i].blind_id = b.blind_id
                  /\ resultsFile.json[i].problem_id = b.problem_id
                  /\ resultsFile.json[i].completion = b.completion
                  /\ resultsFile.json[i].passed = b.passed
                  /\ b.prompt = <<"def ", resultsFile.json[i].problem_id>>
            /\ keyFile.json[b.blind_id]
                  = resultsFile.json[LastWith(resultsFile.json, b.blind_id)].condition
            /\ Cardinality({i \in DOMAIN resultsFile.json :
                               resultsFile.json[i].blind_id = b.blind_id}) = 1
                  => \A i \in DOMAIN resultsFile.json :
                        resultsFile.json[i].blind_id = b.blind_id
                           => keyFile.json[b.blind_id] = resultsFile.json[i].condition

C4_Witness ==
    /\ exPc = "done"
    /\ Len(blindFile.json) >= 2
    /\ blindFile.json[1].blind_id # resultsFile.json[1].blind_id
    /\ resultsFile.json[1].condition # resultsFile.json[2].condition
    /\ resultsFile.json[1].blind_id # resultsFile.json[2].blind_id

\* C5: no trial's exception aborts the batch: the loop records one
\* TrialResult per trial, in the order of the shuffled sequence, each for
\* its trial's problem and condition, |problems| x |conditions| x n in all;
\* a trial in which generate_completion or check_correctness raised is
\* recorded with completion "", passed false and an error text.
C5_EveryTrialRecorded ==
    /\ exPc # "aborted"
    /\ exPc # "start" =>
          Len(trials) = Len(problems) * NumConditions * n_trials
    /\ Len(results) = ti - 1
    /\ Len(raisedIn) = Len(results)
    /\ \A i \in DOMAIN results :
          /\ results[i].problem_id = trials[i].problem_id
          /\ results[i].condition = trials[i].condition
          /\ raisedIn[i] # "none" =>
                /\ results[i].completion = <<>>
                /\ results[i].passed = FALSE
                /\ ~results[i].error.none
                /\ Len(results[i].error.text) >= 2
                /\ results[i].error.text[1] = "Generation error: "
    /\ exPc \notin {"start", "loop"} =>
          /\ Len(results) = Len(trials)
          /\ resultsFile = [written |-> TRUE, json |-> results]

C5_Witness ==
    /\ exPc = "done"
    /\ Len(results) >= 2
    /\ raisedIn[1] = "check"
    /\ raisedIn[2] = "none"
    /\ results[2].passed

(***************************************************************************)
(* Properties of check_correctness.                                        *)
(***************************************************************************)
\* C6: whenever check_correctness has created its temporary file and then
\* returns or raises, the file no longer exists.
C6_TempFileRemoved ==
    (ccPc \in {"returned", "raised"} /\ created) => temp_name \notin tmpFiles

\* e is t cut to at most ErrorLimit characters
IsCut(e, t) ==
    /\ Len(e) = (IF Len(t) <= 500 THEN Len(t) ELSE 500)
    /\ \A i \in 1..Len(e) : e[i] = t[i]

\* C7: once subprocess.run has been reached, the call ends by returning:
\* (true, None) exactly on a zero exit, (false, stderr cut to 500 characters)
\* on a nonzero exit, (false, "Timeout") on a timeout and (false, the
\* exception text cut to 500 characters) on a launch failure.
C7_OutcomesReturned ==
    (ccPc \in {"returned", "raised"} /\ outcome.kind # "none") =>
        /\ ccResult.kind = "return"
        /\ ccResult.passed <=> outcome.kind = "zero"
        /\ outcome.kind = "zero" => ccResult.error.none
        /\ outcome.kind # "zero" => ~ccResult.error.none
        /\ outcome.kind \in {"nonzero", "launch_failure"} =>
              IsCut(ccResult.error.text, outcome.text)
        /\ outcome.kind = "timeout" =>
              ccResult.error.text = <<"T", "i", "m", "e", "o", "u", "t">>

C7_Witness ==
    /\ ccPc = "returned"
    /\ outcome.kind = "launch_failure"
    /\ Len(outcome.text) > 500
    /\ Len(ccResult.error.text) = 500
    /\ calls = 2

(***************************************************************************)
(* Properties of the scoring session.                                      *)
(***************************************************************************)
ValidRecord(r) ==
    /\ \A v \in {r.edge_cases, r.error_handling, r.idiomaticity,
                 r.documentation, r.ship_it} : v \in 1..5
    /\ r.total = r.edge_cases + r.error_handling + r.idiomaticity
                    + r.documentation + r.ship_it

\* the score store the session found when it started
LoadedStore ==
    IF files0[output_file].exists THEN files0[output_file].json.val ELSE EmptyMap

\* C1: every ScoreRecord the session has created, in memory and (once saved)
\* in the scores file, has its five dimensions in 1..5 and total equal to
\* their sum, whatever lines the operator typed.
C1_CreatedRecordsValid ==
    \A k \in DOMAIN entered :
        LET id == data[k].blind_id IN
        /\ id \in DOMAIN scores.val
        /\ ValidRecord(scores.val[id])
        /\ pc = "done" =>
              /\ id \in DOMAIN files[output_file].json.val
              /\ ValidRecord(files[output_file].json.val[id])

C1_Witness ==
    /\ endedBy = "completed"
    /\ \E k \in DOMAIN entered : scores.val[data[k].blind_id].total = 9
    /\ ForeignRecord \in Range(scores.val)
    /\ lastMsg = "Recorded"

\* C2: a blind_id already in the score store at session start is never
\* prompted for, and the record stored for it when the session has ended
\* (by quit or by completion) is the one that was loaded.
C2_ResumeKeepsLoaded ==
    /\ \A k \in prompted : data[k].blind_id \notin DOMAIN LoadedStore
    /\ pc = "done" =>
          /\ files[output_file].exists
          /\ \A id \in DOMAIN LoadedStore :
                /\ id \in DOMAIN files[output_file].json.val
                /\ files[output_file].json.val[id] = LoadedStore[id]

C2_Witness ==
    /\ pc = "done"
    /\ \E k \in DOMAIN data : data[k].blind_id \in DOMAIN LoadedStore
    /\ entered # EmptyMap

\* the store a quit must leave: the loaded entries and the scores entered
ExpectedStore ==
    LET new == {data[k].blind_id : k \in DOMAIN entered}
        posOf(id) == CHOOSE k \in DOMAIN entered : data[k].blind_id = id
    IN  [id \in DOMAIN LoadedStore \cup new |->
            IF id \in new
            THEN [edge_cases |-> entered[posOf(id)][1],
                  error_handling |-> entered[posOf(id)][2],
                  idiomaticity |-> entered[posOf(id)][3],
                  documentation |-> entered[posOf(id)][4],
                  ship_it |-> entered[posOf(id)][5],
                  total |-> entered[posOf(id)][1] + entered[posOf(id)][2]
                            + entered[posOf(id)][3] + entered[posOf(id)][4]
                            + entered[posOf(id)][5]]
            ELSE LoadedStore[id]]

\* positions a quit leaves unscored: not yet reached, being shown, or skipped
LeftUnscored == {k \in DOMAIN data : k >= idx \/ k \in skipped}

IsControl(line) == Normalize(line) \in {<<"q">>, <<"s">>}
IsScoreLine(line) ==
    /\ Len(line) = 5
    /\ \A i \in DOMAIN line : IsInt(line[i]) /\ IntOf(line[i]) \in 1..5
InvalidLines == {line \in Lines : ~IsControl(line) /\ ~IsScoreLine(line)}

\* what a rejected line leaves as it was
Reprompted ==
    /\ scores' = scores
    /\ files' = files
    /\ entered' = entered
    /\ skipped' = skipped
    /\ idx' = idx
    /\ pc' = "prompt"
    /\ lastMsg' \in RejectMessages

\* C11: at the prompt, every line that is not skip, not quit and not five
\* comma-separated integers in 1..5 is answered with a message and a new
\* prompt (a step that changes the score store, the scores file or the sample
\* shown is the response to no such line); the sample is left only by a
\* valid score line, skip or quit.
C11_InvalidLineReprompts ==
    /\ [](pc = "prompt" =>
            \A line \in InvalidLines : Verdict(Normalize(line)) \in RejectMessages)
    /\ [][(pc = "prompt" /\ ~Reprompted) =>
              /\ \A line \in InvalidLines : ~Respond(line)
              /\ \E line \in Lines \ InvalidLines : Respond(line)]_vars

C11_Witness ==
    /\ pc = "prompt"
    /\ lastMsg = "Scores must be 1-5"
    /\ idx = 2
    /\ entered # EmptyMap
    /\ scores.val = ExpectedStore

\* C8: the session writes only the scores file: the derived output path
\* differs from the blind-eval path, and when the session has ended the
\* blind-eval file has not been written to and is what it was.
C8_OnlyScoresFileWritten ==
    pc = "done" =>
        /\ output_file # blind_file
        /\ blind_file \notin written
        /\ files[blind_file] = files0[blind_file]

(***************************************************************************)
(* semantic_conditioning_test.py: generate_completion.                     *)
(***************************************************************************)
InitGenerate ==
    /\ SessionIdle
    /\ CheckerIdle
    /\ ExperimentIdle
    /\ AnalyzerIdle
    /\ gnPc = "call"
    /\ rawText = <<>>
    /\ content = <<>>
    /\ genResult = <<>>

\* lines 110-120: the service answers with a text
CallService ==
    /\ gnPc = "call"
    /\ \E text \in Responses :
        /\ rawText' = text
        /\ content' = text
    /\ gnPc' = "extract"
    /\ UNCHANGED <<notGenerator, genResult>>

\* lines 112-120: the request fails, or the response has no content block
ServiceRaises ==
    /\ gnPc = "call"
    /\ gnPc' = "raised"
    /\ UNCHANGED <<notGenerator, rawText, content, genResult>>

\* lines 122-126
ExtractFenced ==
    /\ gnPc = "extract"
    /\ content' = Extract(content)
    /\ gnPc' = "strip"
    /\ UNCHANGED <<notGenerator, rawText, genResult>>

\* line 128
ReturnStripped ==
    /\ gnPc = "strip"
    /\ genResult' = StripText(content)
    /\ gnPc' = "returned"
    /\ UNCHANGED <<notGenerator, rawText, content>>

NextGenerate ==
    \/ CallService
    \/ ServiceRaises
    \/ ExtractFenced
    \/ ReturnStripped

SpecGenerate == InitGenerate /\ [][NextGenerate]_vars

(***************************************************************************)
(* Properties of generate_completion.                                      *)
(***************************************************************************)
\* the k-th fence of a text
FenceAt(text, k) ==
    CHOOSE i \in Occurrences(text, <<Fence>>) :
        Cardinality({j \in Occurrences(text, <<Fence>>) : j <= i}) = k

NumBlocks(text) == Cardinality(Occurrences(text, <<Fence>>)) \div 2

\* the k-th fenced block: its fences, its tag (the rest of the opening
\* fence's line) and its content (the lines between the two fences)
OpenOf(text, k) == FenceAt(text, 2 * k - 1)
CloseOf(text, k) == FenceAt(text, 2 * k)
TagOf(text, k) ==
    IF text[OpenOf(text, k) + 1] = Newline THEN <<>>
    ELSE <<text[OpenOf(text, k) + 1]>>
BodyOf(text, k) ==
    SubSeq(text, OpenOf(text, k) + Len(TagOf(text, k)) + 2, CloseOf(text, k) - 1)

\* a text whose fences pair up into blocks: every fence starts a line, an
\* opening fence's line holds at most one word after it, a closing fence's
\* line holds nothing else, and prose lines hold no fence
FencedText(text) ==
    /\ Cardinality(Occurrences(text, <<Fence>>)) = 2 * NumBlocks(text)
    /\ \A i \in Occurrences(text, <<Fence>>) : i = 1 \/ text[i - 1] = Newline
    /\ \A k \in 1..NumBlocks(text) :
          /\ \/ text[OpenOf(text, k) + 1] = Newline
             \/ /\ text[OpenOf(text, k) + 1] # Fence
                /\ text[OpenOf(text, k) + 2] = Newline
          /\ \/ CloseOf(text, k) = Len(text)
             \/ text[CloseOf(text, k) + 1] = Newline

PythonBlocks(text) == {k \in 1..NumBlocks(text) : TagOf(text, k) = <<"python">>}

\* what the extraction policy asks for
Expected(text) ==
    IF PythonBlocks(text) # {}
    THEN StripText(BodyOf(text, CHOOSE k \in PythonBlocks(text) :
                                    \A j \in PythonBlocks(text) : k <= j))
    ELSE IF NumBlocks(text) > 0 THEN StripText(BodyOf(text, 1))
    ELSE StripText(text)

\* C12: for every response whose fences pair up into blocks, the text
\* generate_completion returns is the trimmed content of the first block
\* tagged python, else the trimmed content of the first block, else the
\* trimmed response.
C12_ExtractsFirstBlock ==
    (gnPc = "returned" /\ FencedText(rawText)) => genResult = Expected(rawText)

====
